---- MODULE Spec2Model ----
(***************************************************************************)
(* darkTriad (phughesmcr/darktriad), index.js.                             *)
(*                                                                         *)
(* index.js holds two revisions of the entry point darkTriad(str, opts):   *)
(* v3.1.1 (lines 54-207) and v2.0.1 (lines 259-410).  Both are modelled;   *)
(* the variable ver says which one a call runs.  A call is a pipeline:     *)
(*   options defaulting -> empty-text check -> string normalisation ->     *)
(*   tokenizer -> n-gram augmentation -> wordcount -> frequency counter    *)
(*   and match resolver -> intercepts -> output dispatch.                  *)
(* The order of the first two stages differs between the revisions.        *)
(*                                                                         *)
(* JavaScript values are records [t, n, s, a]: t is the kind, n the        *)
(* integer of a number (or 0/1 of a boolean), s the text of a string (or   *)
(* the name of a non-finite number) and a the elements of an array.        *)
(***************************************************************************)
EXTENDS Integers, Sequences, FiniteSets, TLC

(* ------------------------------ bounds --------------------------------- *)
\* longest text, in words
MaxLen == 3
\* largest n-gram size offered in an nGrams array
MaxN == 3

(* --------------------------- JavaScript values ------------------------- *)
Undef == [t |-> "undefined", n |-> 0, s |-> "", a |-> <<>>]
Null == [t |-> "null", n |-> 0, s |-> "", a |-> <<>>]
Num(k) == [t |-> "number", n |-> k, s |-> "", a |-> <<>>]
PosInf == [t |-> "number", n |-> 0, s |-> "+Infinity", a |-> <<>>]
NegInf == [t |-> "number", n |-> 0, s |-> "-Infinity", a |-> <<>>]
NaN == [t |-> "number", n |-> 0, s |-> "NaN", a |-> <<>>]
Str(x) == [t |-> "string", n |-> 0, s |-> x, a |-> <<>>]
Bool(b) == [t |-> "boolean", n |-> IF b THEN 1 ELSE 0, s |-> "", a |-> <<>>]
Arr(q) == [t |-> "array", n |-> 0, s |-> "", a |-> q]

\* typeof v
TypeOf(v) == IF v.t \in {"array", "null"} THEN "object" ELSE v.t

\* ToBoolean(v): what `!v`, `v || d` and `if (v)` test
Truthy(v) ==
  CASE v.t \in {"undefined", "null"} -> FALSE
    [] v.t = "number" -> v.s \in {"+Infinity", "-Infinity"} \/ (v.s = "" /\ v.n # 0)
    [] v.t = "string" -> v.s # ""
    [] v.t = "boolean" -> v.n = 1
    [] OTHER -> TRUE

\* Number(v) on the values the model offers
ToNumber(v) ==
  CASE v.t = "number" -> v
    [] v.t = "undefined" -> NaN
    [] v.t = "null" -> Num(0)
    [] v.t = "boolean" -> Num(v.n)
    [] v.t = "string" ->
         (CASE v.s = "" -> Num(0)
            [] v.s = "0" -> Num(0)
            [] v.s = "1" -> Num(1)
            [] v.s = "4" -> Num(4)
            [] OTHER -> NaN)
    [] OTHER -> IF Len(v.a) = 0 THEN Num(0)
                ELSE IF Len(v.a) = 1 THEN Num(v.a[1]) ELSE NaN

\* v == true (loose equality with the boolean true: ToNumber(v) = 1)
LooseEqTrue(v) ==
  /\ v.t \in {"number", "string", "boolean"}
  /\ ToNumber(v).s = ""
  /\ ToNumber(v).n = 1

\* String.prototype.toLowerCase on the strings the model offers
ToLowerCase(x) ==
  CASE x = "Matches" -> "matches"
    [] x = "GB" -> "gb"
    [] x = "US" -> "us"
    [] x = "Colour" -> "colour"
    [] OTHER -> x

\* s.match(/p/gi) is non-null: p occurs in s, case ignored
MatchesCI(x, p) ==
  LET l == ToLowerCase(x) IN
    \/ l = p
    \/ <<l, p>> \in {<<"fullest", "full">>}

(* ------------------------------- texts --------------------------------- *)
\* A text argument: t is "undefined", "null", "string", "number", "boolean"
\* or "array"; w is the words of its string form, in order (for a
\* non-string: of what toString() gives), and pad says whether white space
\* surrounds them (the string of no words with pad is the blank string " ").
Words == {"a", "Colour"}
TextUndef == [t |-> "undefined", w |-> <<>>, pad |-> FALSE]
TextNull == [t |-> "null", w |-> <<>>, pad |-> FALSE]
TextStr(q, p) == [t |-> "string", w |-> q, pad |-> p]
\* the numbers 0 and 42, the booleans, the arrays [] and ['a']
TextNum(k) == [t |-> "number", w |-> <<k>>, pad |-> FALSE]
TextBool(b) == [t |-> "boolean", w |-> <<b>>, pad |-> FALSE]
TextArr(q) == [t |-> "array", w |-> q, pad |-> FALSE]
NonStringTexts ==
  {TextNum("0"), TextNum("42"), TextBool("false"), TextBool("true"),
   TextArr(<<>>), TextArr(<<"a">>)}
WordSeqs == UNION {[1..k -> Words] : k \in 1..MaxLen}
Texts ==
  {TextUndef, TextNull, TextStr(<<>>, FALSE), TextStr(<<>>, TRUE)}
    \cup {TextStr(q, FALSE) : q \in WordSeqs}
    \cup {TextStr(<<"a", "Colour">>, TRUE)}
    \cup NonStringTexts

\* TextTruthy without the truthy non-strings: every non-string is falsy
TextTruthy_StringsOnly(x) == x.t = "string" /\ (x.w # <<>> \/ x.pad)
\* ToBoolean of a text: the falsy ones are undefined, null, the empty
\* string, 0 and false
TextTruthy(x) ==
  CASE x.t = "string" -> (x.w # <<>> \/ x.pad)
    [] x.t = "number" -> x.w # <<"0">>
    [] x.t = "boolean" -> x.w = <<"true">>
    [] x.t = "array" -> TRUE
    [] OTHER -> FALSE

\* if (typeof str !== 'string') str = str.toString()
ToStringText(x) == IF x.t # "string" THEN TextStr(x.w, x.pad) ELSE x

\* str.toLowerCase().trim()
LowerTrim(x) == [x EXCEPT !.w = [i \in 1..Len(x.w) |-> ToLowerCase(x.w[i])],
                          !.pad = FALSE]

(* ----------------------- external collaborators ------------------------ *)
\* british_american_translate: uk2us rewrites British spellings
uk2us(x) ==
  [x EXCEPT !.w = [i \in 1..Len(x.w) |->
                     IF x.w[i] = "colour" THEN "color" ELSE x.w[i]]]

\* what the tokenizer reports for a string without tokens: null or []
TokNone == {"null", "empty"}
\* what the n-gram generator yields for size 0: nothing, or its default size
Gram0 == {"none", "bigrams"}

\* happynodetokenizer: string -> ordered token sequence; none is TRUE when
\* it returns null
tokenizer(x, tn) ==
  [none |-> (x.w = <<>> /\ tn = "null"), toks |-> x.w]

\* simplengrams: the contiguous spans of n tokens of the string, in order
Spans(w, n) == [i \in 1..(IF Len(w) >= n THEN Len(w) - n + 1 ELSE 0) |->
                  SubSeq(w, i, i + n - 1)]
simplengrams(x, n, g0) ==
  IF n = 0 THEN (IF g0 = "bigrams" THEN Spans(x.w, 2) ELSE <<>>)
  ELSE Spans(x.w, n)

\* lex-helpers arr2string: each span joined by single spaces
RECURSIVE JoinWords(_)
JoinWords(q) ==
  IF Len(q) = 0 THEN ""
  ELSE IF Len(q) = 1 THEN q[1]
  ELSE q[1] \o " " \o JoinWords(Tail(q))
arr2string(spans) == [i \in 1..Len(spans) |-> JoinWords(spans[i])]

\* the traits, in the order of the lexicon's keys
TraitSeq == <<"darktriad", "machiavellianism", "narcissism", "psychopathy">>
Traits == {TraitSeq[i] : i \in 1..Len(TraitSeq)}

\* data/lexicon.json: per trait, word or n-gram -> weight (a small stand-in)
lexicon ==
  [darktriad |-> <<[w |-> "a", wt |-> 1], [w |-> "color", wt |-> 5],
                   [w |-> "a color", wt |-> -2]>>,
   machiavellianism |-> <<[w |-> "a", wt |-> -1], [w |-> "a a", wt |-> 4]>>,
   narcissism |-> <<[w |-> "color", wt |-> 2], [w |-> "colour", wt |-> 3]>>,
   psychopathy |-> <<[w |-> "a a color", wt |-> 3], [w |-> "a", wt |-> 2]>>]

\* lex-helpers itemCount (Frequency Counter): token -> occurrences
itemCount(toks) ==
  [k \in {toks[i] : i \in 1..Len(toks)} |->
     Cardinality({i \in 1..Len(toks) : toks[i] = k})]

\* JavaScript  a < b  for an integer a and a value b (b coerced to a number)
LtVal(a, b) ==
  LET m == ToNumber(b) IN
    CASE m.s = "NaN" -> FALSE
      [] m.s = "+Infinity" -> TRUE
      [] m.s = "-Infinity" -> FALSE
      [] OTHER -> a < m.n
\* JavaScript  a > b
GtVal(a, b) ==
  LET m == ToNumber(b) IN
    CASE m.s = "NaN" -> FALSE
      [] m.s = "+Infinity" -> FALSE
      [] m.s = "-Infinity" -> TRUE
      [] OTHER -> a > m.n

\* lex-helpers getMatches (Match Resolver): per trait, the lexicon entries
\* that occur in the counts and whose weight lies strictly between min and
\* max, each with its count
RECURSIVE ResolveTrait(_, _, _, _)
ResolveTrait(entries, counts, min, max) ==
  IF entries = <<>> THEN <<>>
  ELSE LET e == Head(entries)
           rest == ResolveTrait(Tail(entries), counts, min, max)
       IN IF e.w \in DOMAIN counts /\ LtVal(e.wt, max) /\ GtVal(e.wt, min)
          THEN <<[w |-> e.w, count |-> counts[e.w], wt |-> e.wt]>> \o rest
          ELSE rest
getMatches(counts, lex, min, max) ==
  [tr \in Traits |-> ResolveTrait(lex[tr], counts, min, max)]

RECURSIVE SumSeq(_)
SumSeq(q) == IF q = <<>> THEN 0 ELSE Head(q) + SumSeq(Tail(q))

\* the contribution of one match, as the fraction num/den
Contribution(m, encoding, wc) ==
  CASE encoding = "binary" -> [num |-> m.wt, den |-> 1]
    [] encoding = "percent" -> [num |-> 1, den |-> wc]
    [] OTHER -> [num |-> m.count * m.wt, den |-> wc]

\* lex-helpers doLex (Lexical Aggregator): per trait the score
\* int + num/den to the given places, or null without matches or words
doLex(matches, ints, places, encoding, wc) ==
  [tr \in Traits |->
     LET ms == matches[tr]
         cs == [i \in 1..Len(ms) |-> Contribution(ms[i], encoding, wc).num]
     IN [isnull |-> (wc = 0 \/ ms = <<>>),
         int |-> IF encoding = "percent" THEN "0" ELSE ints[tr],
         num |-> SumSeq(cs),
         den |-> IF encoding = "binary" THEN 1 ELSE wc,
         places |-> places]]

\* the field a sort mode orders by
SortKey(m, by) ==
  CASE by = "freq" -> m.count
    [] by = "weight" -> m.wt
    [] OTHER -> m.num

\* stable insertion of x into a list that is non-increasing in the key
RECURSIVE InsertDesc(_, _, _)
InsertDesc(x, q, by) ==
  IF q = <<>> THEN <<x>>
  ELSE IF SortKey(Head(q), by) >= SortKey(x, by)
       THEN <<Head(q)>> \o InsertDesc(x, Tail(q), by)
       ELSE <<x>> \o q
RECURSIVE SortDesc(_, _)
SortDesc(q, by) ==
  IF q = <<>> THEN <<>>
  ELSE InsertDesc(q[Len(q)], SortDesc(SubSeq(q, 1, Len(q) - 1), by), by)

\* lex-helpers doMatches (Match Formatter): per trait the matches with
\* their contribution, ordered by the sort mode
doMatches(matches, sortBy, wc, places, encoding) ==
  [tr \in Traits |->
     LET ms == matches[tr]
         rows == [i \in 1..Len(ms) |->
                    [w |-> ms[i].w, count |-> ms[i].count, wt |-> ms[i].wt,
                     num |-> Contribution(ms[i], encoding, wc).num,
                     den |-> Contribution(ms[i], encoding, wc).den,
                     places |-> places]]
     IN SortDesc(rows, sortBy)]

(* ------------------------------ options -------------------------------- *)
\* The opts argument: kind is "undefined" (not passed), "null", "number"
\* (a primitive) or "object"; f holds the fields of an object.
NoFields ==
  [encoding |-> Undef, locale |-> Undef, logs |-> Undef, suppressLog |-> Undef,
   max |-> Undef, min |-> Undef, nGrams |-> Undef, noInt |-> Undef,
   output |-> Undef, places |-> Undef, sortBy |-> Undef, wcGrams |-> Undef]

NGramArrays ==
  {<<>>} \cup {<<n>> : n \in 0..MaxN} \cup {<<n, m>> : n, m \in 0..MaxN}

\* one supplied field: name and value
Settings ==
  {[k |-> "encoding", v |-> Str(e)] : e \in {"binary", "percent"}}
    \cup {[k |-> "locale", v |-> x] : x \in {Str("GB"), Num(1)}}
    \cup {[k |-> "logs", v |-> Num(n)] : n \in {0, 1, 3}}
    \cup {[k |-> "suppressLog", v |-> Bool(TRUE)]}
    \cup {[k |-> "max", v |-> x] : x \in {Num(4), Num(0), Str("4"), Str("abc")}}
    \cup {[k |-> "min", v |-> x] : x \in {Num(1), Num(0), Str("1"), Str("abc")}}
    \cup {[k |-> "nGrams", v |-> Arr(q)] : q \in NGramArrays}
    \cup {[k |-> "nGrams", v |-> x] : x \in {Num(0), Str("0"), Num(2), Bool(TRUE), Bool(FALSE)}}
    \cup {[k |-> "noInt", v |-> Bool(b)] : b \in BOOLEAN}
    \cup {[k |-> "output", v |-> x] :
            x \in {Str("lex"), Str("matches"), Str("full"), Str("Matches"),
                   Str("fullest"), Str("bogus"), Num(5)}}
    \cup {[k |-> "places", v |-> Num(2)]}
    \cup {[k |-> "sortBy", v |-> Str(x)] : x \in {"freq", "lex", "weight"}}
    \cup {[k |-> "wcGrams", v |-> x] : x \in {Bool(TRUE), Bool(FALSE), Str("false")}}

\* the options a caller passes: nothing, null, a primitive, or an object
\* with up to two fields supplied
OptObjects ==
  {[kind |-> "object", f |-> NoFields]}
    \cup {[kind |-> "object", f |-> [NoFields EXCEPT ![x.k] = x.v, ![y.k] = y.v]] :
            x \in Settings, y \in Settings}
OptArgs ==
  {[kind |-> k, f |-> NoFields] : k \in {"undefined", "null", "number"}}
    \cup OptObjects

\* (typeof v !== 'undefined') ? v : d
Def(v, d) == IF TypeOf(v) # "undefined" THEN v ELSE d
\* v || d
Or(v, d) == IF Truthy(v) THEN v ELSE d
\* v > k  for a value v and an integer k
GtNum(v, k) ==
  LET m == ToNumber(v) IN
    CASE m.s = "NaN" -> FALSE
      [] m.s = "+Infinity" -> TRUE
      [] m.s = "-Infinity" -> FALSE
      [] OTHER -> m.n > k

\* v3 lines 85-94: max and min
Bounds3(f) ==
  LET max0 == Def(f.max, PosInf)
      min0 == Def(f.min, NegInf)
  IN IF TypeOf(max0) # "number" \/ TypeOf(min0) # "number"
     THEN LET min1 == ToNumber(min0)
              max1 == ToNumber(max0)
          IN [max |-> IF TypeOf(max1) # "number" THEN max1 ELSE PosInf,
              min |-> IF TypeOf(min1) # "number" THEN min1 ELSE NegInf]
     ELSE [max |-> max0, min |-> min0]

\* v3 lines 95-104: nGrams
NGrams3(f, logs) ==
  LET g0 == Def(f.nGrams, Arr(<<2, 3>>))
  IN IF g0.t # "array"
     THEN IF g0 = Num(0) \/ g0 = Str("0") THEN Arr(<<0>>)
          ELSE IF GtNum(logs, 1) THEN Arr(<<2, 3>>)
          ELSE g0
     ELSE g0

\* v3 lines 79-109: the options object after defaulting; thrown when
\* reading or writing a property of opts raises a TypeError
Defaults3(o) ==
  IF o.kind \in {"null", "number"} THEN [thrown |-> TRUE, f |-> o.f]
  ELSE
    LET f == o.f
        logs0 == Def(f.logs, Num(2))
        logs1 == IF Truthy(f.suppressLog) THEN Num(0) ELSE logs0
        b == Bounds3(f)
    IN [thrown |-> FALSE,
        f |-> [encoding |-> Def(f.encoding, Str("freq")),
               locale |-> Def(f.locale, Str("US")),
               logs |-> logs1,
               suppressLog |-> f.suppressLog,
               max |-> b.max,
               min |-> b.min,
               nGrams |-> NGrams3(f, logs1),
               noInt |-> Def(f.noInt, Bool(FALSE)),
               output |-> Def(f.output, Str("lex")),
               places |-> Def(f.places, Num(9)),
               sortBy |-> Def(f.sortBy, Str("lex")),
               wcGrams |-> Def(f.wcGrams, Bool(FALSE))]]

\* v2 lines 304-324
Defaults2(o) ==
  LET f0 == IF o.kind # "object"
            THEN [NoFields EXCEPT !.encoding = Str("freq"), !.max = PosInf,
                                  !.min = NegInf, !.nGrams = Arr(<<2, 3>>),
                                  !.output = Str("lex"), !.places = Num(9),
                                  !.sortBy = Str("lex"), !.wcGrams = Bool(FALSE)]
            ELSE o.f
  IN [thrown |-> FALSE,
      f |-> [f0 EXCEPT !.encoding = Or(f0.encoding, Str("freq")),
                       !.max = Or(f0.max, PosInf),
                       !.min = Or(f0.min, NegInf),
                       !.nGrams = Or(f0.nGrams, Arr(<<2, 3>>)),
                       !.output = Or(f0.output, Str("lex")),
                       !.places = Or(f0.places, Num(9)),
                       !.sortBy = Or(f0.sortBy, Str("lex")),
                       !.wcGrams = Or(f0.wcGrams, Bool(FALSE))]]

Defaults(v, o) == IF v = 3 THEN Defaults3(o) ELSE Defaults2(o)

(* --------------------------- pipeline stages --------------------------- *)
\* v3 lines 123-127, v2 lines 300-302: lower-case, trim and (v3) translate;
\* thrown when opts.locale has no match method
NormStr(v, x, f) ==
  IF v = 3
  THEN IF f.locale.t # "string" THEN [thrown |-> TRUE, x |-> ToStringText(x)]
       ELSE [thrown |-> FALSE,
             x |-> IF MatchesCI(f.locale.s, "gb")
                   THEN uk2us(LowerTrim(ToStringText(x)))
                   ELSE LowerTrim(ToStringText(x))]
  ELSE [thrown |-> FALSE, x |-> LowerTrim(ToStringText(x))]

\* the elements async.each visits: those of an array, the characters of a
\* string ('0' is offered, visited as size 0), none of a number or boolean
EachItems(g) ==
  CASE g.t = "array" -> g.a
    [] g.t = "string" -> IF g.s = "0" THEN <<0>> ELSE <<>>
    [] OTHER -> <<>>

\* no element of nGrams is 0
FirstNotZero_NoZero(g) ==
  ~(g.t = "array" /\ \E i \in 1..Len(g.a) : g.a[i] = 0)
\* nGrams[0] !== 0
FirstNotZero(g) == ~(g.t = "array" /\ Len(g.a) >= 1 /\ g.a[1] = 0)

\* v3 line 138, v2 line 339: whether the n-gram step runs at all
GramsEnabled(v, g, wc) ==
  IF v = 3 THEN Truthy(g) /\ FirstNotZero(g) ELSE Truthy(g) /\ wc > 2

\* v3 line 140, v2 line 341: whether size n is generated for wordcount wc
SizeTaken(v, n, wc) == IF v = 3 THEN ~(wc < n) ELSE n < wc

\* v3 line 143 (prepend), v2 lines 342-344 (append)
AddGrams(v, toks, grams) == IF v = 3 THEN grams \o toks ELSE toks \o grams

\* v3 lines 139-148, v2 lines 340-351: the iteration over the sizes
RECURSIVE EachGram(_, _, _, _, _, _)
EachGram(v, items, toks, x, wc, g0) ==
  IF items = <<>> THEN toks
  ELSE LET n == Head(items)
           next == IF SizeTaken(v, n, wc)
                   THEN AddGrams(v, toks, arr2string(simplengrams(x, n, g0)))
                   ELSE toks
       IN EachGram(v, Tail(items), next, x, wc, g0)

\* v3 lines 136-149, v2 lines 337-352: the token stream after the n-gram step
Augment(v, g, toks, x, g0) ==
  IF GramsEnabled(v, g, Len(toks))
  THEN EachGram(v, EachItems(g), toks, x, Len(toks), g0)
  ELSE toks

\* the sizes the n-gram generator is invoked with, in order
GramCalls(v, g, wc) ==
  IF GramsEnabled(v, g, wc)
  THEN SelectSeq(EachItems(g), LAMBDA n : SizeTaken(v, n, wc))
  ELSE <<>>

\* v3 line 151, v2 line 354: the wordcount used for scoring
RecountTest(v, w) == IF v = 3 THEN w = Bool(TRUE) ELSE Truthy(w)
Wordcount(v, f, base, toks) ==
  IF RecountTest(v, f.wcGrams) THEN Len(toks) ELSE base

\* v3 lines 155-160, v2 lines 360-365
TraitInts ==
  [darktriad |-> "0.632024388686", machiavellianism |-> "0.596743883684",
   narcissism |-> "0.714881303759", psychopathy |-> "0.48892463341"]
\* v3 lines 162-167
ZeroInts == [tr \in Traits |-> "0"]
\* Ints with the noInt test of lines 161-168 left out
Ints_NoIntIgnored(v, f) == TraitInts
\* v3 lines 155-168, v2 lines 360-365: the intercepts handed to doLex
Ints(v, f) ==
  IF v = 3 /\ LooseEqTrue(f.noInt) THEN ZeroInts ELSE TraitInts

\* a call's outcome: kind is "null", "undefined", "throw", "lex", "matches"
\* or "full" ("none" while the call runs); values and matches hold the
\* trait scores and the match lists when the outcome has them
Ret(k, vals, ms) == [kind |-> k, values |-> vals, matches |-> ms]
RetNone == Ret("none", <<>>, <<>>)
RetNull == Ret("null", <<>>, <<>>)
RetUndefined == Ret("undefined", <<>>, <<>>)
RetThrow == Ret("throw", <<>>, <<>>)

\* which branch of the output dispatch is taken
\* v3 lines 170-189 (regular expressions), v2 lines 367-387 (===)
OutputMode(v, out) ==
  IF v = 3
  THEN IF out.t # "string" THEN "throw"
       ELSE IF MatchesCI(out.s, "matches") THEN "matches"
       ELSE IF MatchesCI(out.s, "full") THEN "full"
       ELSE "lex"
  ELSE IF out = Str("matches") THEN "matches"
       ELSE IF out = Str("full") THEN "full"
       ELSE "lex"

\* v3 lines 175-188: results is assigned in the final callback of
\* async.parallel, which runs before parallel returns, and is returned;
\* v2 lines 372-386: `return full` returns from the callback, and darkTriad
\* itself returns nothing
FullResult(v, lexv, mts) ==
  IF v = 3 THEN Ret("full", <<lexv>>, <<mts>>) ELSE RetUndefined

\* v3 lines 169-196, v2 lines 366-394
Output(v, f, matches, ints, wc) ==
  LET mode == OutputMode(v, f.output)
      mts == doMatches(matches, f.sortBy.s, wc, f.places.n, f.encoding.s)
      lexv == doLex(matches, ints, f.places.n, f.encoding.s, wc)
  IN CASE mode = "throw" -> RetThrow
       [] mode = "matches" -> Ret("matches", <<>>, <<mts>>)
       [] mode = "full" -> FullResult(v, lexv, mts)
       [] OTHER -> Ret("lex", <<lexv>>, <<>>)

\* the stages after the options are defaulted and the text is normalised:
\* tokenizer, n-grams, wordcount, counts, matches, intercepts, output
Score(v, x, f, tn, g0) ==
  LET tk == tokenizer(x, tn)
  IN IF tk.none THEN RetNull
     ELSE LET toks == Augment(v, f.nGrams, tk.toks, x, g0)
              wc == Wordcount(v, f, Len(tk.toks), toks)
              ms == getMatches(itemCount(toks), lexicon, f.min, f.max)
          IN Output(v, f, ms, Ints(v, f), wc)

\* darkTriad(str, opts) as one function: v3 lines 79-197 default the
\* options before the text is looked at, v2 lines 293-395 after
darkTriad(v, x, o, tn, g0) ==
  LET d == Defaults(v, o)
      nx == NormStr(v, x, d.f)
  IN IF v = 3
     THEN IF d.thrown THEN RetThrow
          ELSE IF ~TextTruthy(x) THEN RetNull
          ELSE IF nx.thrown THEN RetThrow
          ELSE Score(v, nx.x, d.f, tn, g0)
     ELSE IF ~TextTruthy(x) THEN RetNull
          ELSE Score(v, nx.x, d.f, tn, g0)

(* ------------------------------- state --------------------------------- *)
VARIABLES
  ver,        \* the revision called: 3 or 2
  strIn,      \* the text argument as passed
  optsIn,     \* the opts argument as passed
  tokEnv,     \* how the tokenizer reports "no tokens" in this call
  gramEnv,    \* what the n-gram generator yields for size 0 in this call
  pc,         \* the position in darkTriad
  str,        \* the local str
  opts,       \* the fields of the local opts object
  tokens,     \* the local tokens
  wordcount,  \* the local wordcount
  matches,    \* the local matches
  ints,       \* the local ints
  ret,        \* the outcome of the call
  calls,      \* the collaborators invoked so far, in order
  gi,         \* the index of the next element async.each visits
  gramSizes,  \* the sizes the n-gram generator was invoked with, in order
  results,    \* the local results (v3) or full (v2) of the 'full' branch
  callerOpts  \* the caller's options value, as the caller sees it

vars == <<ver, strIn, optsIn, tokEnv, gramEnv, pc, str, opts, tokens,
          wordcount, matches, ints, ret, calls, gi, gramSizes, results,
          callerOpts>>

NoResults == [values |-> <<>>, matches |-> <<>>]
NoOpts == [kind |-> "undefined", f |-> NoFields]

NoMatches == [tr \in Traits |-> <<>>]

Init ==
  /\ ver = 3
  /\ strIn = TextUndef
  /\ optsIn = NoOpts
  /\ tokEnv = "null"
  /\ gramEnv = "none"
  /\ pc = "idle"
  /\ str = TextUndef
  /\ opts = NoFields
  /\ tokens = <<>>
  /\ wordcount = 0
  /\ matches = NoMatches
  /\ ints = TraitInts
  /\ ret = RetNone
  /\ calls = <<>>
  /\ gi = 1
  /\ gramSizes = <<>>
  /\ results = NoResults
  /\ callerOpts = NoOpts

\* whether size 0 reaches the n-gram generator for these options
ZeroOffered(o) == \E i \in 1..Len(EachItems(o.f.nGrams)) : EachItems(o.f.nGrams)[i] = 0

\* a caller invokes darkTriad(x, o) of revision v
Call ==
  /\ pc = "idle"
  /\ \E v \in {3, 2}, x \in Texts, o \in OptArgs, tn \in TokNone, g0 \in Gram0 :
       /\ (tn = "empty" => TextTruthy(x) /\ x.w = <<>>)
       /\ (g0 = "bigrams" => ZeroOffered(o))
       /\ ver' = v
       /\ strIn' = x
       /\ optsIn' = o
       /\ callerOpts' = o
       /\ tokEnv' = tn
       /\ gramEnv' = g0
       /\ str' = x
       /\ opts' = o.f
       /\ pc' = IF v = 3 THEN "defaults" ELSE "checkStr"
  /\ tokens' = <<>>
  /\ wordcount' = 0
  /\ matches' = NoMatches
  /\ ints' = TraitInts
  /\ ret' = RetNone
  /\ calls' = <<>>
  /\ gi' = 1
  /\ gramSizes' = <<>>
  /\ results' = NoResults

\* the caller's value after the defaulting: the assignments opts.x = ...
\* write into the object the caller passed; for any other argument the
\* object written is a fresh one (v3 line 79: opts = {}, v2 line 306)
WrittenBack(o, f) == IF o.kind = "object" THEN [kind |-> "object", f |-> f] ELSE o

\* v3 lines 81-116, v2 lines 304-328
DefaultOptions ==
  /\ pc = "defaults"
  /\ LET d == Defaults(ver, optsIn)
     IN IF d.thrown
        THEN /\ ret' = RetThrow
             /\ pc' = "done"
             /\ opts' = opts
             /\ callerOpts' = callerOpts
        ELSE /\ opts' = d.f
             /\ callerOpts' = WrittenBack(optsIn, d.f)
             /\ pc' = IF ver = 3 THEN "checkStr" ELSE "tokenize"
             /\ ret' = ret
  /\ UNCHANGED <<ver, strIn, optsIn, tokEnv, gramEnv, str, tokens, wordcount,
                 matches, calls, ints,
                 gi, gramSizes, results>>

\* v3 lines 118-121, v2 lines 295-298
CheckStr ==
  /\ pc = "checkStr"
  /\ IF ~TextTruthy(str)
     THEN /\ ret' = RetNull
          /\ pc' = "done"
     ELSE /\ ret' = ret
          /\ pc' = "normStr"
  /\ UNCHANGED <<ver, strIn, optsIn, tokEnv, gramEnv, str, opts, tokens,
                 wordcount, matches, calls, ints,
                 gi, gramSizes, results, callerOpts>>

\* v3 lines 123-127, v2 lines 300-302
NormaliseStr ==
  /\ pc = "normStr"
  /\ LET nx == NormStr(ver, str, opts)
     IN IF nx.thrown
        THEN /\ ret' = RetThrow
             /\ pc' = "done"
             /\ str' = nx.x
             /\ calls' = calls
        ELSE /\ str' = nx.x
             /\ pc' = IF ver = 3 THEN "tokenize" ELSE "defaults"
             /\ ret' = ret
             /\ calls' = IF ver = 3 /\ MatchesCI(opts.locale.s, "gb")
                         THEN Append(calls, "uk2us") ELSE calls
  /\ UNCHANGED <<ver, strIn, optsIn, tokEnv, gramEnv, opts, tokens, wordcount,
                 matches, ints,
                 gi, gramSizes, results, callerOpts>>

\* v3 lines 129-136, v2 lines 330-337
Tokenize ==
  /\ pc = "tokenize"
  /\ LET tk == tokenizer(str, tokEnv)
     IN IF tk.none
        THEN /\ ret' = RetNull
             /\ pc' = "done"
             /\ UNCHANGED <<tokens, wordcount>>
        ELSE /\ tokens' = tk.toks
             /\ wordcount' = Len(tk.toks)
             /\ pc' = "ngrams"
             /\ ret' = ret
  /\ calls' = Append(calls, "tokenizer")
  /\ UNCHANGED <<ver, strIn, optsIn, tokEnv, gramEnv, str, opts, matches,
                 ints,
                 gi, gramSizes, results, callerOpts>>

\* v3 line 138, v2 line 339: the test that guards the n-gram block; when
\* it passes, async.each is called on nGrams
NGramStep ==
  /\ pc = "ngrams"
  /\ IF GramsEnabled(ver, opts.nGrams, wordcount)
     THEN /\ pc' = "each"
          /\ calls' = Append(calls, "each")
     ELSE /\ pc' = "count"
          /\ calls' = calls
  /\ UNCHANGED <<ver, strIn, optsIn, tokEnv, gramEnv, str, opts, tokens,
                 wordcount, matches, ret, ints, gi, gramSizes, results,
                 callerOpts>>

\* v3 lines 139-148, v2 lines 340-351: one visit of async.each per step,
\* and its final callback after the last element
EachStep ==
  /\ pc = "each"
  /\ LET items == EachItems(opts.nGrams)
     IN IF gi <= Len(items)
        THEN /\ IF SizeTaken(ver, items[gi], wordcount)
                THEN /\ tokens' = AddGrams(ver, tokens,
                                     arr2string(simplengrams(str, items[gi], gramEnv)))
                     /\ calls' = Append(calls, "simplengrams")
                     /\ gramSizes' = Append(gramSizes, items[gi])
                ELSE UNCHANGED <<tokens, calls, gramSizes>>
             /\ gi' = gi + 1
             /\ pc' = pc
        ELSE /\ pc' = "count"
             /\ UNCHANGED <<tokens, calls, gramSizes, gi>>
  /\ UNCHANGED <<ver, strIn, optsIn, tokEnv, gramEnv, str, opts, wordcount,
                 matches, ret, ints, results, callerOpts>>

\* getMatches before itemCount
CountCalls_MatchFirst == <<"getMatches", "itemCount">>
\* v3 line 153, v2 lines 356-358: itemCount(tokens) is evaluated, then
\* getMatches is called with its result
CountCalls == <<"itemCount", "getMatches">>

\* v3 lines 151-153, v2 lines 354-358
CountAndMatch ==
  /\ pc = "count"
  /\ wordcount' = Wordcount(ver, opts, wordcount, tokens)
  /\ matches' = getMatches(itemCount(tokens), lexicon, opts.min, opts.max)
  /\ calls' = calls \o CountCalls
  /\ pc' = "output"
  /\ UNCHANGED <<ver, strIn, optsIn, tokEnv, gramEnv, str, opts, tokens, ret,
                 ints,
                 gi, gramSizes, results, callerOpts>>

\* v3 lines 176-187, v2 lines 372-382: what the two tasks of async.parallel
\* have stored in results (v3) or full (v2) when parallel returns
Stored(mode, f, ms, is, wc) ==
  IF mode = "full"
  THEN [values |-> <<doLex(ms, is, f.places.n, f.encoding.s, wc)>>,
        matches |-> <<doMatches(ms, f.sortBy.s, wc, f.places.n, f.encoding.s)>>]
  ELSE NoResults

\* v3 line 188 (return results), v2 lines 383-386 (return full inside the
\* callback: darkTriad itself returns nothing)
Joined(v, res) ==
  IF v = 3 THEN Ret("full", res.values, res.matches) ELSE RetUndefined

\* v3 lines 155-196, v2 lines 360-394: the intercepts and the output
\* dispatch; the 'matches' and 'lex' branches return at once, the 'full'
\* branch runs the two tasks of async.parallel
OutputStep ==
  /\ pc = "output"
  /\ ints' = Ints(ver, opts)
  /\ results' = Stored(OutputMode(ver, opts.output), opts, matches,
                       Ints(ver, opts), wordcount)
  /\ calls' = calls \o
       (CASE OutputMode(ver, opts.output) = "throw" -> <<>>
          [] OutputMode(ver, opts.output) = "matches" -> <<"doMatches">>
          [] OutputMode(ver, opts.output) = "full" -> <<"doMatches", "doLex">>
          [] OTHER -> <<"doLex">>)
  /\ IF OutputMode(ver, opts.output) = "full"
     THEN /\ pc' = "join"
          /\ ret' = ret
     ELSE /\ pc' = "done"
          /\ ret' = Output(ver, opts, matches, Ints(ver, opts), wordcount)
  /\ UNCHANGED <<ver, strIn, optsIn, tokEnv, gramEnv, str, opts, tokens,
                 wordcount, matches,
                 gi, gramSizes, callerOpts>>

\* v3 lines 184-188, v2 lines 383-387: the final callback of async.parallel
\* has run and darkTriad returns
JoinStep ==
  /\ pc = "join"
  /\ ret' = Joined(ver, results)
  /\ pc' = "done"
  /\ UNCHANGED <<ver, strIn, optsIn, tokEnv, gramEnv, str, opts, tokens,
                 wordcount, matches, ints, calls, results,
                 gi, gramSizes, callerOpts>>

\* the call has returned (or thrown) and its locals are gone; the caller
\* may call again
Return ==
  /\ pc = "done"
  /\ pc' = "idle"
  /\ ver' = 3
  /\ strIn' = TextUndef
  /\ optsIn' = NoOpts
  /\ tokEnv' = "null"
  /\ gramEnv' = "none"
  /\ str' = TextUndef
  /\ opts' = NoFields
  /\ tokens' = <<>>
  /\ wordcount' = 0
  /\ matches' = NoMatches
  /\ ints' = TraitInts
  /\ ret' = RetNone
  /\ calls' = <<>>
  /\ gi' = 1
  /\ gramSizes' = <<>>
  /\ results' = NoResults
  /\ callerOpts' = NoOpts

Next ==
  \/ Call
  \/ DefaultOptions
  \/ CheckStr
  \/ NormaliseStr
  \/ Tokenize
  \/ NGramStep
  \/ EachStep
  \/ CountAndMatch
  \/ OutputStep
  \/ JoinStep
  \/ Return

Spec == Init /\ [][Next]_vars

(* ------------------------------ properties ----------------------------- *)
Done == pc = "done"
\* the opts argument with its output field replaced
WithOutput(o, out) == [kind |-> "object", f |-> [o.f EXCEPT !.output = out]]
\* the outcome of a separate call on the same text with output `out`
SeparateCall(out) ==
  darkTriad(ver, strIn, WithOutput(optsIn, Str(out)), tokEnv, gramEnv)
\* the tokens the tokenizer yields for the normalised text
BaseTokens == tokenizer(str, tokEnv).toks
\* the call got as far as scoring
Scored == \E i \in 1..Len(calls) : calls[i] = "getMatches"

\* C1: with an empty string, null or undefined as the text, the call
\* returns null and has invoked no collaborator, whatever the options are.
C1_EmptyTextReturnsNull ==
  (Done /\ strIn \in {TextUndef, TextNull, TextStr(<<>>, FALSE)})
  => (ret = RetNull /\ calls = <<>>)

\* C2: when the text and options produce tokens, a call with output 'full'
\* returns an object whose values equal the result of a separate 'lex' call
\* and whose matches equal the result of a separate 'matches' call.
C2_FullEqualsLexAndMatches ==
  (/\ Done
   /\ optsIn.kind = "object"
   /\ optsIn.f.output = Str("full")
   /\ SeparateCall("lex").kind = "lex")
  => (/\ ret.kind = "full"
      /\ ret.values = SeparateCall("lex").values
      /\ ret.matches = SeparateCall("matches").matches)

\* C3: every call ends with null or a populated result of one of the three
\* shapes; it never throws and never returns undefined.
C3_NeverThrowsNorUndefined ==
  Done => ret.kind \in {"null", "lex", "matches", "full"}

\* C4: with an output option other than exactly 'lex', 'matches' or 'full'
\* the call returns what it returns with output 'lex'; the result has the
\* matches shape only for 'matches' and the full shape only for 'full'.
C4_UnrecognisedOutputIsLex ==
  (Done /\ optsIn.kind = "object")
  => (/\ (optsIn.f.output \notin {Str("lex"), Str("matches"), Str("full")}
            => ret = SeparateCall("lex"))
      /\ (ret.kind = "matches" => optsIn.f.output = Str("matches"))
      /\ (ret.kind = "full" => optsIn.f.output = Str("full")))

\* the bound the claim C5 expects for a supplied value v and default d
ExpectedBound(v, d) ==
  IF TypeOf(v) = "undefined" THEN d
  ELSE IF TypeOf(v) = "number" THEN v
  ELSE IF ToNumber(v).s = "NaN" THEN d
  ELSE ToNumber(v)

\* C5: the max and min handed to the Match Resolver are the supplied
\* numbers unchanged; a supplied non-number is coerced, and only a failed
\* coercion falls back to +infinity (max) or -infinity (min).
C5_BoundsCoercedOrDefaulted ==
  (Scored /\ optsIn.kind = "object")
  => (/\ opts.max = ExpectedBound(optsIn.f.max, PosInf)
      /\ opts.min = ExpectedBound(optsIn.f.min, NegInf))

\* C6: after option normalisation (v3) nGrams is an array at every log
\* level: [0] for a supplied 0 or '0', [2, 3] for any other non-array.
C6_NGramsAlwaysArray ==
  (ver = 3 /\ pc \in {"checkStr", "normStr", "tokenize", "ngrams", "each",
                      "count", "output", "join"})
  => (/\ opts.nGrams.t = "array"
      /\ (optsIn.f.nGrams.t \notin {"array", "undefined"}
            => opts.nGrams = IF optsIn.f.nGrams \in {Num(0), Str("0")}
                             THEN Arr(<<0>>) ELSE Arr(<<2, 3>>)))

\* the n-grams C7 expects: those of every size not above the wordcount
RECURSIVE ExpectedGrams(_, _, _)
ExpectedGrams(items, x, wc) ==
  IF items = <<>> THEN <<>>
  ELSE (IF Head(items) <= wc
        THEN arr2string(simplengrams(x, Head(items), "none")) ELSE <<>>)
       \o ExpectedGrams(Tail(items), x, wc)
\* the tokens of a stream, with multiplicity
BagOf(q) == itemCount(q)
\* q occurs in r as a prefix or as a suffix
AtAnEnd(q, r) ==
  /\ Len(q) <= Len(r)
  /\ \/ SubSeq(r, 1, Len(q)) = q
     \/ SubSeq(r, Len(r) - Len(q) + 1, Len(r)) = q

\* C7: the token stream handed to the Frequency Counter is the base
\* tokens, once and in order, plus the n-grams of the normalised string
\* for every size in nGrams that is not greater than the base wordcount;
\* a greater size adds nothing and stops no other size.
C7_StreamIsBasePlusGrams ==
  (pc = "count" /\ gramEnv = "none")
  => (/\ AtAnEnd(BaseTokens, tokens)
      /\ BagOf(tokens) =
           BagOf(BaseTokens \o
                 ExpectedGrams(EachItems(opts.nGrams), str, Len(BaseTokens))))

\* C8: the wordcount handed to the aggregator and the formatter is the
\* number of base tokens unless wcGrams is true, and the length of the
\* augmented stream when wcGrams is true.
C8_WordcountFollowsWcGrams ==
  (pc = "output" /\ optsIn.kind = "object")
  => wordcount = IF optsIn.f.wcGrams = Bool(TRUE) THEN Len(tokens)
                 ELSE Len(BaseTokens)

\* the intercepts C9 expects for the options passed
ExpectedInts(o) ==
  IF o.kind = "object" /\ o.f.noInt = Bool(TRUE) THEN ZeroInts ELSE TraitInts

\* C9: (v3) the intercepts handed to the Lexical Aggregator are 0 for all
\* four traits when noInt is true and the four trait constants when noInt
\* is false or unset, whatever the text and the other options are.
C9_InterceptsFollowNoInt ==
  (ver = 3 /\ Done /\ Scored /\ ret.kind # "throw")
  => (/\ ints = ExpectedInts(optsIn)
      /\ \A i \in 1..Len(ret.values) : \A tr \in Traits :
           opts.encoding # Str("percent")
             => ret.values[i][tr].int = ExpectedInts(optsIn)[tr])
\* C9 witness: a v3 call with noInt true and another option supplied has
\* returned trait scores computed with zero intercepts
C9_Witness ==
  /\ ver = 3 /\ Done /\ ret.kind = "lex"
  /\ optsIn.kind = "object" /\ optsIn.f.noInt = Bool(TRUE)
  /\ optsIn.f.wcGrams = Bool(TRUE)
  /\ Len(strIn.w) = 3
  /\ ints = ZeroInts
  /\ ret.values[1]["darktriad"].int = "0"
  /\ ~ret.values[1]["darktriad"].isnull

\* a list of match rows is non-increasing in count
NonIncreasingCount(rows) ==
  \A i \in 1..(Len(rows) - 1) : rows[i].count >= rows[i + 1].count

\* C10: without a sortBy option the match lists are ordered by the 'freq'
\* policy: the formatter is given 'freq' and every list is non-increasing
\* in count.
C10_DefaultSortIsFreq ==
  (/\ Done
   /\ ret.kind \in {"matches", "full"}
   /\ (optsIn.kind = "object" => optsIn.f.sortBy = Undef))
  => (/\ opts.sortBy = Str("freq")
      /\ \A tr \in Traits : NonIncreasingCount(ret.matches[1][tr]))

\* the text argument is neither a string nor null nor undefined
NonStringText == strIn \in NonStringTexts
\* the non-string texts JavaScript counts as false
FalsyNonStrings == {TextNum("0"), TextBool("false")}
\* the collaborator c was invoked in this call
Invoked(c) == \E i \in 1..Len(calls) : calls[i] = c

\* C11 (as stated): a text argument that is not a string is rejected: the
\* call returns null and neither tokenization nor scoring is performed.
C11_NonStringRejected ==
  (Done /\ NonStringText)
  => (ret = RetNull /\ ~Invoked("tokenizer") /\ ~Invoked("getMatches"))

\* C11 (amended): a non-string text that JavaScript counts as false (0,
\* false) has the outcome of the empty string; any other non-string text is
\* replaced by its toString() conversion, not rejected: the tokenizer is
\* invoked on the conversion unless the call threw first, and when the
\* conversion is not the empty string the outcome is that of a call with
\* the conversion as its text.
C11_NonStringConverted ==
  (Done /\ NonStringText)
  => IF strIn \in FalsyNonStrings
     THEN /\ ret = darkTriad(ver, TextStr(<<>>, FALSE), optsIn, tokEnv, gramEnv)
          /\ ~Invoked("tokenizer")
     ELSE /\ (ret # RetThrow => (Invoked("tokenizer") /\ str.t = "string"))
          /\ (strIn.w # <<>>
                => ret = darkTriad(ver, TextStr(strIn.w, FALSE), optsIn,
                                   tokEnv, gramEnv))
\* C11 witness: a call whose text is the array ['a'] has been tokenized and
\* scored and has returned trait scores
C11_Witness ==
  /\ Done /\ strIn = TextArr(<<"a">>)
  /\ Invoked("tokenizer") /\ Invoked("getMatches")
  /\ ret.kind = "lex"
  /\ str = TextStr(<<"a">>, FALSE)

\* C12: whenever the tokenizer yields no tokens for a non-empty text, as
\* null or as an empty sequence, the call returns null and neither the
\* n-gram generator, the Frequency Counter, the Match Resolver nor the
\* aggregation has been run.
C12_NoTokensReturnsNull ==
  (Done /\ TextTruthy(strIn) /\ Invoked("tokenizer") /\ BaseTokens = <<>>)
  => (/\ ret = RetNull
      /\ ~Invoked("simplengrams") /\ ~Invoked("itemCount")
      /\ ~Invoked("getMatches") /\ ~Invoked("doLex") /\ ~Invoked("doMatches"))

\* position of the first invocation of collaborator c, 0 when there is none
RECURSIVE FirstAt(_, _)
FirstAt(c, i) ==
  IF i > Len(calls) THEN 0 ELSE IF calls[i] = c THEN i ELSE FirstAt(c, i + 1)
\* every invocation of a comes before every invocation of b
AllBefore(a, b) ==
  \A i, j \in 1..Len(calls) : (calls[i] = a /\ calls[j] = b) => i < j
\* darkTriad has returned a value or thrown
Returned == ret # RetNone

\* C13: in every run that reaches scoring the n-gram generator has been
\* invoked for every size taken, and the token stream is final, before the
\* Frequency Counter runs; the Frequency Counter runs before the Match
\* Resolver; and with output 'full' both the match formatting and the score
\* aggregation have run and their results are stored before darkTriad
\* returns.
C13_EventsInOrder ==
  /\ AllBefore("each", "itemCount") /\ AllBefore("simplengrams", "itemCount")
  /\ AllBefore("itemCount", "getMatches")
  /\ (Invoked("getMatches") => Invoked("itemCount"))
  /\ (Invoked("itemCount")
        => (/\ gramSizes = GramCalls(ver, opts.nGrams, Len(BaseTokens))
            /\ tokens = Augment(ver, opts.nGrams, BaseTokens, str, gramEnv)))
  /\ AllBefore("getMatches", "doMatches") /\ AllBefore("getMatches", "doLex")
  /\ ((Returned /\ Scored /\ OutputMode(ver, opts.output) = "full")
        => (/\ Invoked("doMatches") /\ Invoked("doLex")
            /\ Len(results.matches) = 1 /\ Len(results.values) = 1
            /\ results.matches[1] =
                 doMatches(matches, opts.sortBy.s, wordcount, opts.places.n,
                           opts.encoding.s)
            /\ results.values[1] =
                 doLex(matches, ints, opts.places.n, opts.encoding.s, wordcount)))
\* C13 witness: a call with output 'full' has generated n-grams of two
\* sizes, counted, matched, run both sub-computations and returned
C13_Witness ==
  /\ Done /\ OutputMode(ver, opts.output) = "full"
  /\ Len(gramSizes) = 2
  /\ FirstAt("simplengrams", 1) > 0
  /\ FirstAt("simplengrams", 1) < FirstAt("itemCount", 1)
  /\ FirstAt("itemCount", 1) < FirstAt("getMatches", 1)
  /\ FirstAt("getMatches", 1) < FirstAt("doMatches", 1)
  /\ Invoked("doLex")
  /\ results # NoResults

\* C14: a call leaves the options object the caller supplied unchanged: no
\* field is added or overwritten by the defaulting or the coercion.
C14_CallerOptionsUnchanged ==
  (Done /\ optsIn.kind = "object") => callerOpts = optsIn

\* nGrams is an array whose first element is 0
FirstZero(g) == g.t = "array" /\ Len(g.a) >= 1 /\ g.a[1] = 0
\* the elements of q that do not exceed wc, in order
UpTo(q, wc) == SelectSeq(q, LAMBDA n : n <= wc)

====
